---- MODULE Spec2Model ----
(***************************************************************************)
(* A model of WirePlumber's persistent state (WpState), its key escaping,  *)
(* the event-hook dispatcher and the daemon wrapper.                       *)
(*                                                                         *)
(* Strings are sequences of one-character strings.  A NULL gchar* is the   *)
(* sequence NULL_STR, which holds a marker that is no character.  A        *)
(* nullable WpProperties* is a set: {} is NULL, {P} a reference to P.      *)
(***************************************************************************)
EXTENDS Integers, Sequences, FiniteSets, TLC

VARIABLES
  \* --- escape_string / compress_string applied to one input ---
  s_in,             \* the input string
  s_out,            \* the value returned by the last function applied
  s_op,             \* "none", "escape", "roundtrip" or "compress"
  \* --- WpState ---
  file,             \* the file at self->location
  timeout_source,   \* self->timeout_source: NULL or a GSource
  timeout_props,    \* self->timeout_props: NULL ({}) or {P}
  sources,          \* timeout sources of this state attached to the main loop
  ret,              \* what the last step returned (to its caller or the loop)
  lastSave,         \* props of the last successful wp_state_save, if the file
                    \* was not touched since ({} otherwise)
  lastSupplied,     \* props handed to the last wp_state_save_after_timeout
                    \* whose timer has not expired yet ({} if none)
  calls,            \* wp_state_save_after_timeout calls since the last expiry
  twrites,          \* timer writes since the first of those calls
  twindow,          \* the number of calls the last timer write followed
  io,               \* the last operation: its file access failed, and a
                    \* GError was set for the caller of wp_state_save
  between,          \* "save", "clear": the calls of wp_state_save and
                    \* wp_state_clear made while the timer of the last
                    \* wp_state_save_after_timeout was pending
  \* --- the daemon (main and its callbacks) ---
  d_pc,             \* where main is: "parse", "version", "conf", "run",
                    \* "loop" (inside g_main_loop_run) or "done"
  opt_error,        \* g_option_context_parse fails on this command line
  show_version,     \* the command line holds -v
  conf_error,       \* wp_conf_new_open fails
  exit_code,        \* d.exit_code
  is_running,       \* the flag of d.loop that g_main_loop_quit clears
  activation,       \* "none", "pending" or "finished": wp_object_activate
  requests,         \* the calls of daemon_exit so far: who asked, which code
  d_ret,            \* the value main returned, NotReturned before
  d_out,            \* what main and its callbacks printed, in order
  core,             \* d.core: "none", "created" (wp_core_new) or
                    \* "disconnected" (after wp_core_disconnect)
  \* --- the event dispatcher ---
  hooks,            \* the registered hooks, by name
  nRegs,            \* registrations so far
  queue,            \* the pending events, in dispatch order
  nextSeq,          \* the arrival sequence number of the next event pushed
  cur,              \* the event being dispatched: {} or {event}
  matched,          \* the hooks selected for the current event, by name
  order,            \* the selected hooks not started yet, in execution order
  skipped,          \* the selected hooks left out because of a cycle
  active,           \* the hooks started and not terminated: name and step
  log,              \* starts and terminations of hooks for the current event
  cancelled,        \* the current event was cancelled
  regOrder,         \* the names of the registered hooks, in registration order
  cycleErrors,      \* CycleErrors reported so far
  \* --- the reserve-device plugin ---
  rd_pc,            \* "alive" between construction and finalization
  dbus_loaded,      \* a plugin named "dbus-connection" is loaded in the core
  dbus_state,       \* the "state" property of that plugin
  dbus,             \* self->dbus is not NULL
  handlers,         \* handlers of notify::state connected by this plugin
  enabled,          \* WP_PLUGIN_FEATURE_ENABLED
  reserve_devices,  \* self->reserve_devices: name -> reservation object
  manager,          \* self->manager is not NULL
  released,         \* how often the plugin sent "release" to each object
  nCreated,         \* reservation objects constructed so far
  createdAs,        \* the name each of them was constructed with
  rd_ret            \* the last operation and what it returned

strVars == <<s_in, s_out, s_op>>
stateVars == <<file, timeout_source, timeout_props, sources, ret, lastSave,
               lastSupplied, calls, twrites, twindow, io, between>>
daemonVars == <<d_pc, opt_error, show_version, conf_error, exit_code,
                is_running, activation, requests, d_ret, d_out, core>>
dispVars == <<hooks, nRegs, queue, nextSeq, cur, matched, order, skipped,
              active, log, cancelled, regOrder, cycleErrors>>
rdVars == <<rd_pc, dbus_loaded, dbus_state, dbus, handlers, enabled,
            reserve_devices, manager, released, nCreated, createdAs, rd_ret>>

----------------------------------------------------------------------------
(* Bounds *)
MaxStrLen == 3
MaxPropsSize == 2
MaxBurst == 3
MaxExitCalls == 3
MaxRegs == 3
MaxEvents == 3
MaxCreates == 3
MaxEnables == 2

----------------------------------------------------------------------------
(* Strings *)

ESCAPED_CHARACTER == "\\"

\* Characters of the model: the five escaped ones, the four letters that
\* follow the escape character in an encoded key, and a plain one.
Chars == {"\\", " ", "=", "[", "]", "s", "e", "o", "c", "a"}

NULL_STR == <<"(null)">>

RECURSIVE StringsOfLen(_)
StringsOfLen(n) ==
  IF n = 0 THEN {<<>>}
  ELSE {Append(s, c) : s \in StringsOfLen(n - 1), c \in Chars}

Strings == UNION {StringsOfLen(n) : n \in 0..MaxStrLen}

\* escape_string without its case for ']'.
EscapeCode_bracket_raw(c) ==
  CASE c = ESCAPED_CHARACTER -> <<ESCAPED_CHARACTER, ESCAPED_CHARACTER>>
    [] c = " " -> <<ESCAPED_CHARACTER, "s">>
    [] c = "=" -> <<ESCAPED_CHARACTER, "e">>
    [] c = "[" -> <<ESCAPED_CHARACTER, "o">>
    [] OTHER -> <<c>>

\* The switch of escape_string: what one character of the key is written as.
EscapeCode(c) ==
  CASE c = ESCAPED_CHARACTER -> <<ESCAPED_CHARACTER, ESCAPED_CHARACTER>>
    [] c = " " -> <<ESCAPED_CHARACTER, "s">>
    [] c = "=" -> <<ESCAPED_CHARACTER, "e">>
    [] c = "[" -> <<ESCAPED_CHARACTER, "o">>
    [] c = "]" -> <<ESCAPED_CHARACTER, "c">>
    [] OTHER -> <<c>>

\* The for loop of escape_string; i is the C index (0-based).
RECURSIVE escape_loop(_, _, _)
escape_loop(str, i, res) ==
  IF i < Len(str)
  THEN escape_loop(str, i + 1, res \o EscapeCode(str[i + 1]))
  ELSE res

escape_string(str) ==
  IF str = NULL_STR THEN NULL_STR
  ELSE IF ~(Len(str) > 0) THEN NULL_STR
  ELSE escape_loop(str, 0, <<>>)

\* compress_string with the cases 'o' and 'c' exchanged.
UnescapeCode_swapped(c) ==
  CASE c = ESCAPED_CHARACTER -> ESCAPED_CHARACTER
    [] c = "s" -> " "
    [] c = "e" -> "="
    [] c = "o" -> "]"
    [] c = "c" -> "["
    [] OTHER -> ESCAPED_CHARACTER

\* The inner switch of compress_string: the character stored for an escape
\* character followed by c.  The default case stores str[i], the escape
\* character itself.
UnescapeCode(c) ==
  CASE c = ESCAPED_CHARACTER -> ESCAPED_CHARACTER
    [] c = "s" -> " "
    [] c = "e" -> "="
    [] c = "o" -> "["
    [] c = "c" -> "]"
    [] OTHER -> ESCAPED_CHARACTER

\* The for loop of compress_string, run up to str_size - 1; it returns the
\* final <<i, res>>.  After an escape character i is advanced twice.
RECURSIVE compress_loop(_, _, _)
compress_loop(str, i, res) ==
  IF i < Len(str) - 1
  THEN IF str[i + 1] = ESCAPED_CHARACTER
       THEN compress_loop(str, i + 2, Append(res, UnescapeCode(str[i + 2])))
       ELSE compress_loop(str, i + 1, Append(res, str[i + 1]))
  ELSE <<i, res>>

compress_string(str) ==
  IF str = NULL_STR THEN NULL_STR
  ELSE IF ~(Len(str) > 0) THEN NULL_STR
  ELSE LET r == compress_loop(str, 0, <<>>)
       IN IF r[1] < Len(str) THEN Append(r[2], str[r[1] + 1]) ELSE r[2]

----------------------------------------------------------------------------
(* Properties and the key file *)

\* Keys of the model: the empty key, a key with a space and a bracket, and
\* a key that reads like an escape sequence.
Keys == {<<>>, <<"a", " ", "[">>, <<"\\", "s">>}
Vals == {"x", "y"}

PropsUniverse ==
  UNION {[D -> Vals] : D \in {D \in SUBSET Keys : Cardinality(D) <= MaxPropsSize}}

EmptyProps == [k \in {} |-> "x"]

NULL == {}
Ref(p) == {p}
Deref(r) == CHOOSE p \in r : TRUE

\* g_key_file_set_string (keyfile, self->name, escaped_key, val)
g_key_file_set_string(kf, key, val) ==
  [k \in DOMAIN kf \cup {key} |-> IF k = key THEN val ELSE kf[k]]

\* The loop of wp_state_save over the items of props: each key is escaped
\* and stored unless escape_string returned NULL.
RECURSIVE save_items(_, _, _)
save_items(props, todo, kf) ==
  IF todo = {} THEN kf
  ELSE LET key == CHOOSE k \in todo : TRUE
           escaped_key == escape_string(key)
       IN save_items(props, todo \ {key},
            IF escaped_key # NULL_STR
            THEN g_key_file_set_string(kf, escaped_key, props[key])
            ELSE kf)

KeyFileOf(props) == save_items(props, DOMAIN props, EmptyProps)

\* wp_properties_set (props, compressed_key, val)
wp_properties_set(props, key, val) ==
  [k \in DOMAIN props \cup {key} |-> IF k = key THEN val ELSE props[k]]

\* The loop of wp_state_load over the keys of the group.
RECURSIVE load_keys(_, _, _)
load_keys(kf, todo, props) ==
  IF todo = {} THEN props
  ELSE LET key == CHOOSE k \in todo : TRUE
           compressed_key == compress_string(key)
       IN load_keys(kf, todo \ {key},
            IF compressed_key # NULL_STR
            THEN wp_properties_set(props, compressed_key, kf[key])
            ELSE props)

\* The file at self->location: missing, unreadable, not a key file, a key
\* file without a group named self->name, or a key file with that group.
FileKinds == {"missing", "unreadable", "unparsable", "nogroup", "ok"}
BadFile(kind) == [kind |-> kind, group |-> EmptyProps]
GoodFile(kf) == [kind |-> "ok", group |-> kf]

----------------------------------------------------------------------------
(* WpState *)

NoSource == 0

\* wp_core_timeout_add_closure: a new source, attached to the main loop.
NewSource(S) == CHOOSE n \in 1..(Cardinality(S) + 1) : n \notin S

\* wp_state_save_after_timeout without its call of g_source_destroy.
g_source_destroy_skipped(S, src) == S

\* g_source_destroy (self->timeout_source), called only for a non-NULL source
g_source_destroy(S, src) == IF src # NoSource THEN S \ {src} ELSE S

\* What wp_state_save leaves at self->location: with props NULL it returns
\* FALSE before writing; a failed g_key_file_save_to_file leaves the file.
wp_state_save(f, props, written) ==
  IF props = NULL THEN f
  ELSE IF written THEN GoodFile(KeyFileOf(Deref(props)))
  ELSE f

\* wp_state_save returning TRUE whether or not the file was written.
wp_state_save_result_ignoring_write(props, written) == props # NULL

\* The value wp_state_save returns.
wp_state_save_result(props, written) == props # NULL /\ written

\* wp_state_load returning NULL when the file cannot be used.
wp_state_load_null(f) ==
  IF f.kind # "ok" THEN NULL
  ELSE Ref(load_keys(f.group, DOMAIN f.group, EmptyProps))

\* The value wp_state_load returns: a reference to a WpProperties.
wp_state_load(f) ==
  IF f.kind \in {"missing", "unreadable", "unparsable"}
  THEN Ref(EmptyProps)
  ELSE IF f.kind = "nogroup"
  THEN Ref(EmptyProps)
  ELSE Ref(load_keys(f.group, DOMAIN f.group, EmptyProps))

Returned(op, ok, val) == [op |-> op, ok |-> ok, val |-> val]

\* The outcome of the file access of an operation: g_key_file_save_to_file,
\* g_key_file_load_from_file or remove failed; *error was set.
IO(failed, error) == [failed |-> failed, error |-> error]

InitState ==
  /\ file = BadFile("missing")
  /\ timeout_source = NoSource
  /\ timeout_props = NULL
  /\ sources = {}
  /\ ret = Returned("none", TRUE, NULL)
  /\ lastSave = NULL
  /\ lastSupplied = NULL
  /\ calls = 0
  /\ twrites = 0
  /\ twindow = 0
  /\ io = IO(FALSE, FALSE)
  /\ between = {}

\* wp_state_save (self, props, &error) called by a client
Save(props, written) ==
  /\ file' = wp_state_save(file, Ref(props), written)
  /\ ret' = Returned("save", wp_state_save_result(Ref(props), written), NULL)
  /\ lastSave' = IF wp_state_save_result(Ref(props), written)
                 THEN Ref(props) ELSE lastSave
  /\ io' = IO(~written, ~written)
  /\ between' = IF timeout_props # NULL THEN between \cup {"save"} ELSE between
  /\ UNCHANGED <<timeout_source, timeout_props, sources, lastSupplied, calls,
                 twrites, twindow>>

\* A wp_state_clear that also drops the pending write and its timer.
Clear_dropping_pending(removed) ==
  /\ file' = IF removed /\ file.kind # "missing" THEN BadFile("missing") ELSE file
  /\ ret' = Returned("clear", TRUE, NULL)
  /\ lastSave' = IF removed THEN NULL ELSE lastSave
  /\ io' = IO(~removed, FALSE)
  /\ between' = IF timeout_props # NULL THEN between \cup {"clear"} ELSE between
  /\ timeout_source' = NoSource
  /\ timeout_props' = NULL
  /\ sources' = {}
  /\ lastSupplied' = NULL
  /\ calls' = 0
  /\ UNCHANGED <<twrites, twindow>>

\* wp_state_clear (self): remove() may fail, which is only logged
Clear(removed) ==
  /\ file' = IF removed /\ file.kind # "missing" THEN BadFile("missing") ELSE file
  /\ ret' = Returned("clear", TRUE, NULL)
  /\ lastSave' = IF removed THEN NULL ELSE lastSave
  /\ io' = IO(~removed, FALSE)
  /\ between' = IF timeout_props # NULL THEN between \cup {"clear"} ELSE between
  /\ UNCHANGED <<timeout_source, timeout_props, sources, lastSupplied, calls,
                 twrites, twindow>>

\* wp_state_save_after_timeout (self, core, props)
SaveAfterTimeout(props) ==
  /\ calls < MaxBurst
  /\ LET left == g_source_destroy(sources, timeout_source)
         src == NewSource(left)
     IN /\ sources' = left \cup {src}
        /\ timeout_source' = src
  /\ timeout_props' = Ref(props)
  /\ ret' = Returned("save_after_timeout", TRUE, NULL)
  /\ lastSupplied' = Ref(props)
  /\ calls' = calls + 1
  /\ twrites' = IF calls = 0 THEN 0 ELSE twrites
  /\ io' = IO(FALSE, FALSE)
  /\ between' = {}
  /\ UNCHANGED <<file, lastSave, twindow>>

\* A callback that keeps the timer and the pending Properties when the
\* write failed, to write again at the next expiry.
TimeoutCallback_retrying(src, written) ==
  /\ src \in sources
  /\ timeout_props # NULL
  /\ file' = wp_state_save(file, timeout_props, written)
  /\ lastSave' = IF wp_state_save_result(timeout_props, written)
                 THEN timeout_props ELSE lastSave
  /\ ret' = Returned("timeout_callback",
                     wp_state_save_result(timeout_props, written), NULL)
  /\ timeout_source' = IF written THEN NoSource ELSE timeout_source
  /\ timeout_props' = IF written THEN NULL ELSE timeout_props
  /\ sources' = IF written THEN sources \ {src} ELSE sources
  /\ lastSupplied' = NULL
  /\ calls' = 0
  /\ twrites' = twrites + 1
  /\ twindow' = calls
  /\ io' = IO(~written, ~written)
  /\ UNCHANGED between

\* timeout_save_state_callback (self), run by the main loop when a source
\* of this state expires; it returns G_SOURCE_REMOVE.  (With timeout_props
\* NULL the callback would read error->message of a NULL error; no reachable
\* state has a source attached and timeout_props NULL.)
TimeoutCallback(src, written) ==
  /\ src \in sources
  /\ timeout_props # NULL
  /\ file' = wp_state_save(file, timeout_props, written)
  /\ lastSave' = IF wp_state_save_result(timeout_props, written)
                 THEN timeout_props ELSE lastSave
  /\ ret' = Returned("timeout_callback",
                     wp_state_save_result(timeout_props, written), NULL)
  /\ timeout_source' = NoSource
  /\ timeout_props' = NULL
  /\ sources' = sources \ {src}
  /\ lastSupplied' = NULL
  /\ calls' = 0
  /\ twrites' = twrites + 1
  /\ twindow' = calls
  /\ io' = IO(~written, ~written)
  /\ UNCHANGED between

\* A wp_state_load that returns the pending Properties while a write is
\* pending.
Load_reflecting_pending ==
  /\ ret' = Returned("load", TRUE,
                     IF timeout_props # NULL THEN timeout_props
                     ELSE wp_state_load(file))
  /\ io' = IO(file.kind \in {"missing", "unreadable", "unparsable"}, FALSE)
  /\ UNCHANGED <<file, timeout_source, timeout_props, sources, lastSave,
                 lastSupplied, calls, twrites, twindow, between>>

\* wp_state_load (self)
Load ==
  /\ ret' = Returned("load", TRUE, wp_state_load(file))
  /\ io' = IO(file.kind \in {"missing", "unreadable", "unparsable"}, FALSE)
  /\ UNCHANGED <<file, timeout_source, timeout_props, sources, lastSave,
                 lastSupplied, calls, twrites, twindow, between>>

\* Something outside the program replaces, removes or protects the file.
EnvFile(kind) ==
  /\ kind # "ok"
  /\ file.kind # kind
  /\ file' = BadFile(kind)
  /\ lastSave' = NULL
  /\ ret' = Returned("none", TRUE, NULL)
  /\ io' = IO(FALSE, FALSE)
  /\ UNCHANGED <<timeout_source, timeout_props, sources, lastSupplied,
                 calls, twrites, twindow, between>>

----------------------------------------------------------------------------
(* escape_string and compress_string on one input *)

InitStr ==
  /\ s_in \in Strings
  /\ s_out = NULL_STR
  /\ s_op = "none"

IdleStr ==
  /\ s_in = <<>>
  /\ s_out = NULL_STR
  /\ s_op = "idle"

Escape ==
  /\ s_op = "none"
  /\ s_out' = escape_string(s_in)
  /\ s_op' = "escape"
  /\ UNCHANGED s_in

CompressEscaped ==
  /\ s_op = "escape"
  /\ s_out' = compress_string(s_out)
  /\ s_op' = "roundtrip"
  /\ UNCHANGED s_in

Compress ==
  /\ s_op = "none"
  /\ s_out' = compress_string(s_in)
  /\ s_op' = "compress"
  /\ UNCHANGED s_in

----------------------------------------------------------------------------
(* The daemon *)

WP_EXIT_OK == 0
WP_EXIT_USAGE == 64
WP_EXIT_UNAVAILABLE == 69
WP_EXIT_SOFTWARE == 70
WP_EXIT_CONFIG == 78

NotReturned == -1

Signals == {"SIGINT", "SIGTERM", "SIGHUP"}

\* error->code of a failed wp_object_activate_finish, or "none" on success
ActivationResults ==
  {"none", "SERVICE_UNAVAILABLE", "INVALID_ARGUMENT", "OPERATION_FAILED",
   "INVARIANT"}

Request(by, code) == [by |-> by, code |-> code]

InitDaemon ==
  /\ d_pc = "parse"
  /\ opt_error \in BOOLEAN
  /\ show_version \in BOOLEAN
  /\ conf_error \in BOOLEAN
  /\ exit_code = WP_EXIT_OK
  /\ is_running = FALSE
  /\ activation = "none"
  /\ requests = <<>>
  /\ d_ret = NotReturned
  /\ d_out = <<>>
  /\ core = "none"

IdleDaemon ==
  /\ d_pc = "idle"
  /\ opt_error = FALSE
  /\ show_version = FALSE
  /\ conf_error = FALSE
  /\ exit_code = WP_EXIT_OK
  /\ is_running = FALSE
  /\ activation = "none"
  /\ requests = <<>>
  /\ d_ret = NotReturned
  /\ d_out = <<>>
  /\ core = "none"

\* daemon_exit with the test of d->exit_code left out.
daemon_exit_overwrite(code) ==
  /\ exit_code' = code
  /\ is_running' = FALSE

\* daemon_exit (d, code)
daemon_exit(code) ==
  /\ exit_code' = IF exit_code = WP_EXIT_OK THEN code ELSE exit_code
  /\ is_running' = FALSE

\* A main that loads the configuration before it looks at show_version.
MainShowVersion_after_conf ==
  /\ d_pc = "version"
  /\ IF conf_error
     THEN /\ d_pc' = "done"
          /\ d_ret' = WP_EXIT_CONFIG
          /\ d_out' = Append(d_out, "Failed to load configuration")
     ELSE IF show_version
     THEN /\ d_pc' = "done"
          /\ d_ret' = WP_EXIT_OK
          /\ d_out' = Append(d_out, "WIREPLUMBER_VERSION")
     ELSE /\ d_pc' = "conf"
          /\ UNCHANGED <<d_ret, d_out>>
  /\ UNCHANGED <<opt_error, show_version, conf_error, exit_code, is_running,
                 activation, requests, core>>

\* main: g_option_context_parse
MainParseOptions ==
  /\ d_pc = "parse"
  /\ IF opt_error
     THEN /\ d_pc' = "done"
          /\ d_ret' = WP_EXIT_USAGE
          /\ d_out' = Append(d_out, "error->message")
     ELSE /\ d_pc' = "version"
          /\ UNCHANGED <<d_ret, d_out>>
  /\ UNCHANGED <<opt_error, show_version, conf_error, exit_code, is_running,
                 activation, requests, core>>

\* main: if (show_version)
MainShowVersion ==
  /\ d_pc = "version"
  /\ IF show_version
     THEN /\ d_pc' = "done"
          /\ d_ret' = WP_EXIT_OK
          /\ d_out' = Append(d_out, "WIREPLUMBER_VERSION")
     ELSE /\ d_pc' = "conf"
          /\ UNCHANGED <<d_ret, d_out>>
  /\ UNCHANGED <<opt_error, show_version, conf_error, exit_code, is_running,
                 activation, requests, core>>

\* main: wp_conf_new_open
MainLoadConf ==
  /\ d_pc = "conf"
  /\ IF conf_error
     THEN /\ d_pc' = "done"
          /\ d_ret' = WP_EXIT_CONFIG
          /\ d_out' = Append(d_out, "Failed to load configuration")
     ELSE /\ d_pc' = "run"
          /\ UNCHANGED <<d_ret, d_out>>
  /\ UNCHANGED <<opt_error, show_version, conf_error, exit_code, is_running,
                 activation, requests, core>>

\* main: the loop and the core are created, the handlers connected, the
\* core's activation started and g_main_loop_run entered
MainRun ==
  /\ d_pc = "run"
  /\ d_pc' = "loop"
  /\ is_running' = TRUE
  /\ activation' = "pending"
  /\ core' = "created"
  /\ UNCHANGED <<opt_error, show_version, conf_error, exit_code, requests,
                 d_ret, d_out>>

\* A signal handler that records the signal and returns.
signal_handler_ignored(sig) ==
  /\ d_pc = "loop"
  /\ Len(requests) < MaxExitCalls
  /\ requests' = Append(requests, Request(sig, WP_EXIT_OK))
  /\ UNCHANGED <<exit_code, is_running>>
  /\ UNCHANGED <<d_pc, opt_error, show_version, conf_error, activation,
                 d_ret, d_out, core>>

\* signal_handler (signal, data), dispatched by the main loop
signal_handler(sig) ==
  /\ d_pc = "loop"
  /\ Len(requests) < MaxExitCalls
  /\ requests' = Append(requests, Request(sig, WP_EXIT_OK))
  /\ daemon_exit(WP_EXIT_OK)
  /\ UNCHANGED <<d_pc, opt_error, show_version, conf_error, activation,
                 d_ret, d_out, core>>

\* An on_disconnected that only logs the disconnection.
on_disconnected_logging_only ==
  /\ d_pc = "loop"
  /\ Len(requests) < MaxExitCalls
  /\ requests' = Append(requests, Request("disconnected", WP_EXIT_OK))
  /\ UNCHANGED <<exit_code, is_running>>
  /\ UNCHANGED <<d_pc, opt_error, show_version, conf_error, activation,
                 d_ret, d_out, core>>

\* on_disconnected (core, d)
on_disconnected ==
  /\ d_pc = "loop"
  /\ Len(requests) < MaxExitCalls
  /\ requests' = Append(requests, Request("disconnected", WP_EXIT_OK))
  /\ daemon_exit(WP_EXIT_OK)
  /\ UNCHANGED <<d_pc, opt_error, show_version, conf_error, activation,
                 d_ret, d_out, core>>

\* A switch that takes every error for a software error.
ActivationExitCode_software(res) == WP_EXIT_SOFTWARE

\* The switch of on_core_activated on error->code.
ActivationExitCode(res) ==
  CASE res = "SERVICE_UNAVAILABLE" -> WP_EXIT_UNAVAILABLE
    [] res = "INVALID_ARGUMENT" -> WP_EXIT_CONFIG
    [] OTHER -> WP_EXIT_SOFTWARE

\* on_core_activated (core, res, d)
on_core_activated(res) ==
  /\ d_pc = "loop"
  /\ activation = "pending"
  /\ activation' = "finished"
  /\ IF res = "none"
     THEN UNCHANGED <<exit_code, is_running, requests, d_out>>
     ELSE /\ d_out' = Append(d_out, "error->message")
          /\ requests' = Append(requests, Request("activation", ActivationExitCode(res)))
          /\ daemon_exit(ActivationExitCode(res))
  /\ UNCHANGED <<d_pc, opt_error, show_version, conf_error, d_ret, core>>

\* main: g_main_loop_run returns once is_running is cleared; then
\* wp_core_disconnect and return d.exit_code
MainLoopReturns ==
  /\ d_pc = "loop"
  /\ ~is_running
  /\ d_pc' = "done"
  /\ d_ret' = exit_code
  /\ core' = "disconnected"
  /\ UNCHANGED <<opt_error, show_version, conf_error, exit_code, is_running,
                 activation, requests, d_out>>

----------------------------------------------------------------------------
(* The event dispatcher.  Its code is not part of the sources at hand     *)
(* (event-hook.h only declares the hook interface); it is modelled from   *)
(* the specification, sections 3, 4.3 to 4.5 and 5.                       *)

EventTypes == {"E1", "E2"}
Priorities == {1, 2}

\* Hook names in lexicographic order.
HookOrder == <<"A", "B", "C">>
HookNames == {HookOrder[i] : i \in 1..Len(HookOrder)}
NameRank(n) == CHOOSE i \in 1..Len(HookOrder) : HookOrder[i] = n

Hook(name, before, after, interest, kind, steps) ==
  [name |-> name, before |-> before, after |-> after, interest |-> interest,
   kind |-> kind, steps |-> steps]

\* The hooks a client may register: A after C; A before B (a cycle with
\* B before A); an async C of two steps; a C that matches E2 only.
HookDefs ==
  { Hook("A", {}, {"C"}, {"E1"}, "sync", 0),
    Hook("A", {"B"}, {}, {"E1"}, "sync", 0),
    Hook("B", {"A"}, {}, {"E1"}, "sync", 0),
    Hook("C", {}, {}, {"E1", "E2"}, "async", 2),
    Hook("C", {}, {}, {"E2"}, "sync", 0) }

NoHooks == [n \in {} |-> Hook("A", {}, {}, {}, "sync", 0)]

Event(seq, type, prio) == [seq |-> seq, type |-> type, prio |-> prio]

\* A hook that runs for every event.
wp_event_hook_runs_for_any_event(h, e) == TRUE

\* wp_event_hook_runs_for_event: one of the hook's interests matches
wp_event_hook_runs_for_event(h, e) == e.type \in h.interest

\* An ordering that reads the 'before' lists only.
RunsBefore_ignoringAfter(a, b) == b.name \in a.before

\* wp_event_hook_get_runs_before_hooks / _after_hooks: a must run before b
RunsBefore(a, b) == b.name \in a.before \/ a.name \in b.after

\* (priority DESC, arrival ASC)
DispatchedBefore(e, f) ==
  e.prio > f.prio \/ (e.prio = f.prio /\ e.seq < f.seq)

RECURSIVE InsertSorted(_, _)
InsertSorted(q, e) ==
  IF q = <<>> THEN <<e>>
  ELSE IF DispatchedBefore(e, Head(q)) THEN <<e>> \o q
  ELSE <<Head(q)>> \o InsertSorted(Tail(q), e)

\* A queue kept in arrival order.
Enqueue_fifo(q, e) == Append(q, e)

\* The pending queue after push(e)
Enqueue(q, e) == InsertSorted(q, e)

\* The hooks of S that must run after n, and those reached from n by
\* following such constraints.
Successors(defs, S, n) == {m \in S : RunsBefore(defs[n], defs[m])}

RECURSIVE ReachedFrom(_, _, _, _)
ReachedFrom(defs, S, front, seen) ==
  IF front \subseteq seen THEN seen
  ELSE ReachedFrom(defs, S,
         UNION {Successors(defs, S, m) : m \in front}, seen \cup front)

\* The cyclic component: the hooks of S that lie on a cycle.
OnCycle(defs, S) ==
  {n \in S : n \in ReachedFrom(defs, S, Successors(defs, S, n), {})}

\* Ties broken by the reverse of the lexicographic order.
TieBreak_reverse(free, reg) ==
  CHOOSE x \in free : \A y \in free : NameRank(x) >= NameRank(y)

\* Ties broken by the order of registration.
TieBreak_registration(free, reg) ==
  CHOOSE x \in free : \A y \in free :
    (CHOOSE i \in 1..Len(reg) : reg[i] = x)
      <= (CHOOSE i \in 1..Len(reg) : reg[i] = y)

\* Tie-break among the hooks with no remaining predecessor: the first by
\* lexicographic order of name, wherever the hooks stand in the registry
\* (reg lists the registered names in registration order).
TieBreak(free, reg) ==
  CHOOSE x \in free : \A y \in free : NameRank(x) <= NameRank(y)

\* A sort that gives up at a cycle: no hook of the event is run.
RECURSIVE TopoSort_abort_on_cycle(_, _, _, _)
TopoSort_abort_on_cycle(defs, remaining, out, reg) ==
  LET free == {n \in remaining :
                 \A m \in remaining : ~RunsBefore(defs[m], defs[n])}
  IN IF remaining = {} THEN [order |-> out, skipped |-> {}]
     ELSE IF free = {}
     THEN [order |-> <<>>,
           skipped |-> remaining \cup {out[i] : i \in 1..Len(out)}]
     ELSE TopoSort_abort_on_cycle(defs, remaining \ {TieBreak(free, reg)},
                                  Append(out, TieBreak(free, reg)), reg)

\* Topological sort of the selected hooks: repeatedly take, among the hooks
\* with no remaining predecessor, the first by name.  When hooks remain and
\* none is free there is a cycle: the hooks on a cycle are skipped and the
\* sort continues with the rest.
RECURSIVE TopoSort(_, _, _, _)
TopoSort(defs, remaining, out, reg) ==
  LET free == {n \in remaining :
                 \A m \in remaining : ~RunsBefore(defs[m], defs[n])}
  IN IF remaining = {} THEN [order |-> out, skipped |-> {}]
     ELSE IF free = {}
     THEN LET r == TopoSort(defs, remaining \ OnCycle(defs, remaining), out,
                            reg)
          IN [order |-> r.order,
              skipped |-> r.skipped \cup OnCycle(defs, remaining)]
     ELSE TopoSort(defs, remaining \ {TieBreak(free, reg)},
                   Append(out, TieBreak(free, reg)), reg)

\* Selection: the registered hooks that match e, as registered now
Select(H, e) ==
  [n \in {x \in DOMAIN H : wp_event_hook_runs_for_event(H[x], e)} |-> H[n]]

\* A dispatcher that does not wait for the hook in flight.
CanStartNext_always == TRUE

\* The dispatcher starts the next hook only when no hook is executing.
CanStartNext == active = {}

Started(h) == [what |-> "start", hook |-> h, why |-> "run"]
Terminated(h, why) == [what |-> "done", hook |-> h, why |-> why]

InitDisp ==
  /\ hooks = NoHooks
  /\ nRegs = 0
  /\ queue = <<>>
  /\ nextSeq = 1
  /\ cur = {}
  /\ matched = NoHooks
  /\ order = <<>>
  /\ skipped = {}
  /\ active = {}
  /\ log = <<>>
  /\ cancelled = FALSE
  /\ regOrder = <<>>
  /\ cycleErrors = 0

\* Dispatch of e begins: selection and ordering, once per event
BeginDispatch(e) ==
  /\ cur' = {e}
  /\ matched' = Select(hooks, e)
  /\ LET r == TopoSort(Select(hooks, e), DOMAIN Select(hooks, e), <<>>,
                       regOrder)
     IN /\ order' = r.order
        /\ skipped' = r.skipped
        /\ cycleErrors' = IF r.skipped # {} THEN cycleErrors + 1
                          ELSE cycleErrors
  /\ active' = {}
  /\ log' = <<>>
  /\ cancelled' = FALSE

\* A registration that adds the hook and keeps one of the same name.
Register_keeping_prior(def) ==
  /\ nRegs < MaxRegs
  /\ nRegs' = nRegs + 1
  /\ hooks' = [n \in DOMAIN hooks \cup {def.name} |->
                 IF n \in DOMAIN hooks THEN hooks[n] ELSE def]
  /\ regOrder' = Append(regOrder, def.name)
  /\ UNCHANGED <<queue, nextSeq, cur, matched, order, skipped, active, log,
                 cancelled, cycleErrors>>

\* register: a hook of the same name is replaced
Register(def) ==
  /\ nRegs < MaxRegs
  /\ nRegs' = nRegs + 1
  /\ hooks' = [n \in DOMAIN hooks \cup {def.name} |->
                 IF n = def.name THEN def ELSE hooks[n]]
  /\ regOrder' = Append(SelectSeq(regOrder, LAMBDA n : n # def.name), def.name)
  /\ UNCHANGED <<queue, nextSeq, cur, matched, order, skipped, active, log,
                 cancelled, cycleErrors>>

\* push (event): dispatch begins at once when no event is executing
Push(type, prio) ==
  /\ nextSeq <= MaxEvents
  /\ nextSeq' = nextSeq + 1
  /\ LET e == Event(nextSeq, type, prio)
     IN IF cur = {}
        THEN /\ BeginDispatch(e)
             /\ UNCHANGED queue
        ELSE /\ queue' = Enqueue(queue, e)
             /\ UNCHANGED <<cur, matched, order, skipped, active, log,
                            cancelled, cycleErrors>>
  /\ UNCHANGED <<hooks, nRegs, regOrder>>

\* The next hook of the current event is started.  A sync hook runs to its
\* end; an async hook is asked for its first step, which is executed and
\* then awaits its completion callback.
StartHook ==
  /\ cur # {}
  /\ CanStartNext
  /\ order # <<>>
  /\ ~cancelled
  /\ LET h == Head(order)
         def == matched[h]
     IN IF def.kind = "sync"
        THEN /\ log' = log \o <<Started(h), Terminated(h, "sync")>>
             /\ UNCHANGED active
        ELSE IF def.steps = 0
        THEN /\ log' = log \o <<Started(h), Terminated(h, "none")>>
             /\ UNCHANGED active
        ELSE /\ log' = Append(log, Started(h))
             /\ active' = active \cup {[name |-> h, step |-> 1]}
  /\ order' = Tail(order)
  /\ UNCHANGED <<hooks, nRegs, queue, nextSeq, cur, matched, skipped,
                 cancelled, regOrder, cycleErrors>>

\* The completion callback of an async hook's step: on failure (a cancelled
\* event makes the step fail) the hook terminates; otherwise next-step is
\* asked and either names a step, which is executed, or answers "none".
StepCompleted(a, ok) ==
  /\ a \in active
  /\ IF ~ok \/ cancelled
     THEN /\ active' = active \ {a}
          /\ log' = Append(log, Terminated(a.name, "failed"))
     ELSE IF a.step < matched[a.name].steps
     THEN /\ active' = (active \ {a}) \cup {[name |-> a.name, step |-> a.step + 1]}
          /\ UNCHANGED log
     ELSE /\ active' = active \ {a}
          /\ log' = Append(log, Terminated(a.name, "none"))
  /\ UNCHANGED <<hooks, nRegs, queue, nextSeq, cur, matched, order, skipped,
                 cancelled, regOrder, cycleErrors>>

\* A cancellation that also drops the events waiting in the queue.
Cancel_flushing_queue ==
  /\ cur # {}
  /\ ~cancelled
  /\ cancelled' = TRUE
  /\ queue' = <<>>
  /\ UNCHANGED <<hooks, nRegs, nextSeq, cur, matched, order, skipped,
                 active, log, regOrder, cycleErrors>>

\* The event in flight is cancelled
Cancel ==
  /\ cur # {}
  /\ ~cancelled
  /\ cancelled' = TRUE
  /\ UNCHANGED <<hooks, nRegs, queue, nextSeq, cur, matched, order, skipped,
                 active, log, regOrder, cycleErrors>>

\* Completion: all hooks of the event have terminated (or the event was
\* cancelled and the rest is skipped); the event is released and the next
\* queued event is dispatched.
FinishEvent ==
  /\ cur # {}
  /\ active = {}
  /\ order = <<>> \/ cancelled
  /\ IF queue = <<>>
     THEN /\ cur' = {}
          /\ matched' = NoHooks
          /\ order' = <<>>
          /\ skipped' = {}
          /\ active' = {}
          /\ log' = <<>>
          /\ cancelled' = FALSE
          /\ UNCHANGED <<queue, cycleErrors>>
     ELSE /\ BeginDispatch(Head(queue))
          /\ queue' = Tail(queue)
  /\ UNCHANGED <<hooks, nRegs, nextSeq, regOrder>>

----------------------------------------------------------------------------
(* The reserve-device plugin *)

DBusStates == {"closed", "connecting", "connected"}

\* The names reservations are created under.
RdNames == {"hw0", "hw1"}

RdIds == 1..MaxCreates

NoReservations == [n \in {} |-> 0]

Plugin ==
  [reserve_devices |-> reserve_devices, manager |-> manager,
   released |-> released]

\* rd_unref: the value destroy function of self->reserve_devices
rd_unref(rel, rd) == [rel EXCEPT ![rd] = @ + 1]

\* A g_hash_table_remove_all that releases the values twice.
g_hash_table_remove_all_twice(tbl, rel) ==
  [rd \in DOMAIN rel |->
     IF \E n \in DOMAIN tbl : tbl[n] = rd THEN rel[rd] + 2 ELSE rel[rd]]

\* g_hash_table_remove_all: every value goes through rd_unref
g_hash_table_remove_all(tbl, rel) ==
  [rd \in DOMAIN rel |->
     IF \E n \in DOMAIN tbl : tbl[n] = rd THEN rel[rd] + 1 ELSE rel[rd]]

\* g_hash_table_remove (self->reserve_devices, name)
g_hash_table_remove(p, name) ==
  IF name \in DOMAIN p.reserve_devices
  THEN [p EXCEPT
          !.reserve_devices = [n \in DOMAIN p.reserve_devices \ {name} |->
                                 p.reserve_devices[n]],
          !.released = rd_unref(p.released, p.reserve_devices[name])]
  ELSE p

\* A table without a value destroy function: the value replaced is dropped
\* and not released.
g_hash_table_replace_no_destroy(p, name, rd) ==
  [p EXCEPT
     !.reserve_devices = [n \in DOMAIN p.reserve_devices \cup {name} |->
                            IF n = name THEN rd ELSE p.reserve_devices[n]]]

\* g_hash_table_replace (self->reserve_devices, rd->name, rd): a value
\* stored under the name is destroyed
g_hash_table_replace(p, name, rd) ==
  [p EXCEPT
     !.reserve_devices = [n \in DOMAIN p.reserve_devices \cup {name} |->
                            IF n = name THEN rd ELSE p.reserve_devices[n]],
     !.released = IF name \in DOMAIN p.reserve_devices
                  THEN rd_unref(p.released, p.reserve_devices[name])
                  ELSE p.released]

\* clear_reservation (self)
clear_reservation(p) ==
  [reserve_devices |-> NoReservations,
   manager |-> FALSE,
   released |-> g_hash_table_remove_all(p.reserve_devices, p.released)]

\* A handler that clears the reservations on "closed" only.
on_dbus_state_changed_closed_only(p, state) ==
  CASE state = "connected" -> [p EXCEPT !.manager = TRUE]
    [] state = "closed" -> clear_reservation(p)
    [] OTHER -> p

\* on_dbus_state_changed (dbus, spec, self)
on_dbus_state_changed(p, state) ==
  CASE state = "connected" -> [p EXCEPT !.manager = TRUE]
    [] OTHER -> clear_reservation(p)

\* The emission of notify::state: each connected handler runs in turn.
RECURSIVE Notify(_, _, _)
Notify(p, state, n) ==
  IF n = 0 THEN p ELSE Notify(on_dbus_state_changed(p, state), state, n - 1)

SetPlugin(p) ==
  /\ reserve_devices' = p.reserve_devices
  /\ manager' = p.manager
  /\ released' = p.released

\* The operations read the state as connected whatever the bus says.
Connected_always == TRUE

\* g_object_get (self->dbus, "state", &state, NULL) on a state preset to
\* CLOSED, which a NULL self->dbus leaves as it is; then the test
\* state != WP_DBUS_CONNECTION_STATE_CONNECTED
Connected == dbus /\ dbus_state = "connected"

RdReturned(op, name, val) == [op |-> op, name |-> name, val |-> val]

InitRd ==
  /\ rd_pc = "alive"
  /\ dbus_loaded \in BOOLEAN
  /\ dbus_state \in (IF dbus_loaded THEN DBusStates ELSE {"closed"})
  /\ dbus = FALSE
  /\ handlers = 0
  /\ enabled = FALSE
  /\ reserve_devices = NoReservations
  /\ manager = FALSE
  /\ released = [rd \in RdIds |-> 0]
  /\ nCreated = 0
  /\ createdAs = <<>>
  /\ rd_ret = RdReturned("init", "", {})

IdleRd ==
  /\ rd_pc = "idle"
  /\ dbus_loaded = FALSE
  /\ dbus_state = "closed"
  /\ dbus = FALSE
  /\ handlers = 0
  /\ enabled = FALSE
  /\ reserve_devices = NoReservations
  /\ manager = FALSE
  /\ released = [rd \in RdIds |-> 0]
  /\ nCreated = 0
  /\ createdAs = <<>>
  /\ rd_ret = RdReturned("init", "", {})

\* An enable that goes on when wp_plugin_find found nothing.
Enable_without_dbus_test ==
  /\ rd_pc = "alive"
  /\ ~enabled
  /\ handlers < MaxEnables
  /\ dbus' = TRUE
  /\ handlers' = handlers + 1
  /\ SetPlugin(on_dbus_state_changed(Plugin, dbus_state))
  /\ enabled' = TRUE
  /\ rd_ret' = RdReturned("enable", "", {})
  /\ UNCHANGED <<rd_pc, dbus_loaded, dbus_state, nCreated, createdAs>>

\* wp_reserve_device_plugin_enable (plugin, transition)
Enable ==
  /\ rd_pc = "alive"
  /\ ~enabled
  /\ handlers < MaxEnables
  /\ IF ~dbus_loaded
     THEN /\ rd_ret' = RdReturned("enable", "error", {})
          /\ UNCHANGED <<dbus, handlers, enabled, reserve_devices, manager,
                         released>>
     ELSE /\ dbus' = TRUE
          /\ handlers' = handlers + 1
          /\ SetPlugin(on_dbus_state_changed(Plugin, dbus_state))
          /\ enabled' = TRUE
          /\ rd_ret' = RdReturned("enable", "", {})
  /\ UNCHANGED <<rd_pc, dbus_loaded, dbus_state, nCreated, createdAs>>

\* wp_reserve_device_plugin_disable (plugin)
Disable ==
  /\ rd_pc = "alive"
  /\ enabled
  /\ SetPlugin(clear_reservation(Plugin))
  /\ dbus' = FALSE
  /\ enabled' = FALSE
  /\ rd_ret' = RdReturned("disable", "", {})
  /\ UNCHANGED <<rd_pc, dbus_loaded, dbus_state, handlers, nCreated, createdAs>>

\* The dbus-connection plugin changes its state and notifies: the handlers
\* this plugin connected run before anything else does.
BusStateChanged(state) ==
  /\ rd_pc = "alive"
  /\ dbus_loaded
  /\ state # dbus_state
  /\ dbus_state' = state
  /\ SetPlugin(Notify(Plugin, state, handlers))
  /\ rd_ret' = RdReturned("notify", "", {})
  /\ UNCHANGED <<rd_pc, dbus_loaded, dbus, handlers, enabled, nCreated, createdAs>>

\* wp_reserve_device_plugin_create_reservation (self, name, ...)
CreateReservation(name) ==
  /\ rd_pc = "alive"
  /\ nCreated < MaxCreates
  /\ IF ~Connected
     THEN /\ rd_ret' = RdReturned("create", name, {})
          /\ UNCHANGED <<reserve_devices, manager, released, nCreated, createdAs>>
     ELSE /\ nCreated' = nCreated + 1
          /\ createdAs' = Append(createdAs, name)
          /\ SetPlugin(g_hash_table_replace(Plugin, name, nCreated + 1))
          /\ rd_ret' = RdReturned("create", name, {nCreated + 1})
  /\ UNCHANGED <<rd_pc, dbus_loaded, dbus_state, dbus, handlers, enabled>>

\* wp_reserve_device_plugin_destroy_reservation (self, name)
DestroyReservation(name) ==
  /\ rd_pc = "alive"
  /\ IF ~Connected
     THEN UNCHANGED <<reserve_devices, manager, released>>
     ELSE SetPlugin(g_hash_table_remove(Plugin, name))
  /\ rd_ret' = RdReturned("destroy", name, {})
  /\ UNCHANGED <<rd_pc, dbus_loaded, dbus_state, dbus, handlers, enabled,
                 nCreated, createdAs>>

\* wp_reserve_device_plugin_get_reservation (self, name)
GetReservation(name) ==
  /\ rd_pc = "alive"
  /\ rd_ret' = RdReturned("get", name,
                 IF Connected /\ name \in DOMAIN reserve_devices
                 THEN {reserve_devices[name]} ELSE {})
  /\ UNCHANGED <<rd_pc, dbus_loaded, dbus_state, dbus, handlers, enabled,
                 reserve_devices, manager, released, nCreated, createdAs>>

\* wp_reserve_device_plugin_finalize (object): the table is destroyed, and
\* with the object gone its signal handlers are disconnected
Finalize ==
  /\ rd_pc = "alive"
  /\ rd_pc' = "finalized"
  /\ reserve_devices' = NoReservations
  /\ released' = g_hash_table_remove_all(reserve_devices, released)
  /\ handlers' = 0
  /\ rd_ret' = RdReturned("finalize", "", {})
  /\ UNCHANGED <<dbus_loaded, dbus_state, dbus, enabled, manager, nCreated, createdAs>>

----------------------------------------------------------------------------
(* Specifications *)

vars == <<strVars, stateVars, daemonVars, dispVars, rdVars>>

NextStr ==
  \/ Escape /\ UNCHANGED <<stateVars, daemonVars, dispVars, rdVars>>
  \/ CompressEscaped /\ UNCHANGED <<stateVars, daemonVars, dispVars, rdVars>>
  \/ Compress /\ UNCHANGED <<stateVars, daemonVars, dispVars, rdVars>>

NextState ==
  \/ \E props \in PropsUniverse, written \in BOOLEAN :
       Save(props, written) /\ UNCHANGED <<strVars, daemonVars, dispVars, rdVars>>
  \/ \E removed \in BOOLEAN : Clear(removed) /\ UNCHANGED <<strVars, daemonVars, dispVars, rdVars>>
  \/ \E props \in PropsUniverse :
       SaveAfterTimeout(props) /\ UNCHANGED <<strVars, daemonVars, dispVars, rdVars>>
  \/ \E src \in sources, written \in BOOLEAN :
       TimeoutCallback(src, written) /\ UNCHANGED <<strVars, daemonVars, dispVars, rdVars>>
  \/ Load /\ UNCHANGED <<strVars, daemonVars, dispVars, rdVars>>
  \/ \E kind \in FileKinds : EnvFile(kind) /\ UNCHANGED <<strVars, daemonVars, dispVars, rdVars>>

NextDaemon ==
  \/ MainParseOptions /\ UNCHANGED <<strVars, stateVars, dispVars, rdVars>>
  \/ MainShowVersion /\ UNCHANGED <<strVars, stateVars, dispVars, rdVars>>
  \/ MainLoadConf /\ UNCHANGED <<strVars, stateVars, dispVars, rdVars>>
  \/ MainRun /\ UNCHANGED <<strVars, stateVars, dispVars, rdVars>>
  \/ \E sig \in Signals : signal_handler(sig) /\ UNCHANGED <<strVars, stateVars, dispVars, rdVars>>
  \/ on_disconnected /\ UNCHANGED <<strVars, stateVars, dispVars, rdVars>>
  \/ \E res \in ActivationResults :
       on_core_activated(res) /\ UNCHANGED <<strVars, stateVars, dispVars, rdVars>>
  \/ MainLoopReturns /\ UNCHANGED <<strVars, stateVars, dispVars, rdVars>>

NextDisp ==
  \/ \E def \in HookDefs : Register(def) /\ UNCHANGED <<strVars, stateVars, daemonVars, rdVars>>
  \/ \E type \in EventTypes, prio \in Priorities :
       Push(type, prio) /\ UNCHANGED <<strVars, stateVars, daemonVars, rdVars>>
  \/ StartHook /\ UNCHANGED <<strVars, stateVars, daemonVars, rdVars>>
  \/ \E a \in active, ok \in BOOLEAN :
       StepCompleted(a, ok) /\ UNCHANGED <<strVars, stateVars, daemonVars, rdVars>>
  \/ Cancel /\ UNCHANGED <<strVars, stateVars, daemonVars, rdVars>>
  \/ FinishEvent /\ UNCHANGED <<strVars, stateVars, daemonVars, rdVars>>

NextRd ==
  \/ Enable /\ UNCHANGED <<strVars, stateVars, daemonVars, dispVars>>
  \/ Disable /\ UNCHANGED <<strVars, stateVars, daemonVars, dispVars>>
  \/ \E state \in DBusStates :
       BusStateChanged(state) /\ UNCHANGED <<strVars, stateVars, daemonVars, dispVars>>
  \/ \E name \in RdNames :
       CreateReservation(name) /\ UNCHANGED <<strVars, stateVars, daemonVars, dispVars>>
  \/ \E name \in RdNames :
       DestroyReservation(name) /\ UNCHANGED <<strVars, stateVars, daemonVars, dispVars>>
  \/ \E name \in RdNames :
       GetReservation(name) /\ UNCHANGED <<strVars, stateVars, daemonVars, dispVars>>
  \/ Finalize /\ UNCHANGED <<strVars, stateVars, daemonVars, dispVars>>

\* The persistent state
Init == IdleStr /\ InitState /\ IdleDaemon /\ InitDisp /\ IdleRd
Spec == Init /\ [][NextState]_vars

\* escape_string and compress_string
InitSpecStr == InitStr /\ InitState /\ IdleDaemon /\ InitDisp /\ IdleRd
SpecStr == InitSpecStr /\ [][NextStr]_vars

\* The daemon
InitSpecDaemon == IdleStr /\ InitState /\ InitDaemon /\ InitDisp /\ IdleRd
SpecDaemon == InitSpecDaemon /\ [][NextDaemon]_vars

\* The daemon on a main loop that is scheduled fairly: g_main_loop_run
\* returns once g_main_loop_quit was called.
FairDaemon == WF_daemonVars(MainLoopReturns)
InitSpecDaemonFair ==
  IdleStr /\ InitState /\ InitDaemon /\ InitDisp /\ IdleRd
SpecDaemonFair == InitSpecDaemonFair /\ [][NextDaemon]_vars /\ FairDaemon

\* The event dispatcher
InitSpecDisp == IdleStr /\ InitState /\ IdleDaemon /\ InitDisp /\ IdleRd
SpecDisp == InitSpecDisp /\ [][NextDisp]_vars

\* The registries a client can have built with one registration for each
\* name, made in the order of the names.
Registries == {H \in [HookNames -> HookDefs] : \A n \in HookNames : H[n].name = n}

RECURSIVE SortedNames(_)
SortedNames(S) ==
  IF S = {} THEN <<>>
  ELSE LET n == CHOOSE x \in S : \A y \in S : NameRank(x) <= NameRank(y)
       IN <<n>> \o SortedNames(S \ {n})

InitDispRegistered ==
  /\ hooks \in Registries
  /\ nRegs = Cardinality(DOMAIN hooks)
  /\ regOrder = SortedNames(DOMAIN hooks)
  /\ queue = <<>>
  /\ nextSeq = 1
  /\ cur = {}
  /\ matched = NoHooks
  /\ order = <<>>
  /\ skipped = {}
  /\ active = {}
  /\ log = <<>>
  /\ cancelled = FALSE
  /\ cycleErrors = 0

\* The dispatcher once its hooks are registered.
NextDispRun ==
  \/ \E type \in EventTypes, prio \in Priorities :
       Push(type, prio) /\ UNCHANGED <<strVars, stateVars, daemonVars, rdVars>>
  \/ StartHook /\ UNCHANGED <<strVars, stateVars, daemonVars, rdVars>>
  \/ \E a \in active, ok \in BOOLEAN :
       StepCompleted(a, ok) /\ UNCHANGED <<strVars, stateVars, daemonVars, rdVars>>
  \/ Cancel /\ UNCHANGED <<strVars, stateVars, daemonVars, rdVars>>
  \/ FinishEvent /\ UNCHANGED <<strVars, stateVars, daemonVars, rdVars>>

\* The event dispatcher, started with hooks registered, on a loop that keeps
\* running: a hook that can be started is started, a step in flight
\* completes, a dispatch that can end ends.
LoopStep ==
  \/ StartHook
  \/ \E a \in active, ok \in BOOLEAN : StepCompleted(a, ok)
  \/ FinishEvent

FairDisp == WF_dispVars(LoopStep)
InitSpecDispFair ==
  IdleStr /\ InitState /\ IdleDaemon /\ InitDispRegistered /\ IdleRd
SpecDispFair == InitSpecDispFair /\ [][NextDispRun]_vars /\ FairDisp

\* The reserve-device plugin
InitSpecRd == IdleStr /\ InitState /\ IdleDaemon /\ InitDisp /\ InitRd
SpecRd == InitSpecRd /\ [][NextRd]_vars

----------------------------------------------------------------------------
(* Claims about the persistent state *)

\* C1: wp_state_save_after_timeout called N >= 1 times, each before the
\* timer of the previous call expired, leads to one write by the timer, of
\* the Properties of the last call.  While calls are pending exactly one
\* timer is attached and nothing was written for them; once the timer has
\* expired no timer is left and it wrote once; the write made by the timer
\* is of the Properties supplied last.
C1_PendingOneTimer ==
  calls > 0 =>
    /\ twrites = 0
    /\ sources = {timeout_source}
    /\ timeout_source # NoSource
    /\ timeout_props = lastSupplied

C1_ExpiredOneWrite ==
  calls = 0 => sources = {} /\ twrites <= 1 /\ timeout_source = NoSource

C1_TimerWritesLast ==
  twrites' = twrites + 1 =>
    /\ twrites = 0
    /\ lastSupplied # NULL
    /\ ret'.ok => /\ file' = GoodFile(KeyFileOf(Deref(lastSupplied)))
                  /\ lastSave' = lastSupplied

C1_Debounce ==
  /\ [](C1_PendingOneTimer /\ C1_ExpiredOneWrite)
  /\ [][C1_TimerWritesLast]_vars

\* Three calls were followed by one write, which succeeded.
C1_Witness ==
  /\ ret.op = "timeout_callback"
  /\ ret.ok
  /\ twindow = 3
  /\ twrites = 1
  /\ file.kind = "ok"
  /\ DOMAIN file.group # {}

\* C2 (as amended): for every non-empty string s,
\* compress_string(escape_string(s)) = s.
C2_RoundTripNonEmpty ==
  (s_op = "roundtrip" /\ s_in # <<>>) => s_out = s_in

\* A string made only of escaped characters went through both functions.
C2_Witness ==
  /\ s_op = "roundtrip"
  /\ s_in = <<"\\", "\\", " ">>
  /\ s_out = s_in

\* C2 (as stated): for every string s, the empty one included,
\* compress_string(escape_string(s)) = s.
C2_RoundTripAll ==
  s_op = "roundtrip" => s_out = s_in

\* C3 (as stated): wp_state_load after a successful wp_state_save(P) returns
\* a bag equal to P, whatever the keys of P.
C3_SaveLoadRoundTrip ==
  (ret.op = "load" /\ lastSave # NULL) => ret.val = lastSave

\* C4: wp_state_load never returns an error value, and returns an empty
\* Properties when the file is missing, unreadable, unparsable or holds no
\* group named after the state.
C4_LoadNeverFails ==
  ret.op = "load" =>
    /\ ret.ok
    /\ ret.val # NULL
    /\ file.kind # "ok" => ret.val = Ref(EmptyProps)

\* wp_state_load was called on a file that is not a key file.
C4_Witness ==
  /\ ret.op = "load"
  /\ file.kind = "unparsable"
  /\ ret.val = Ref(EmptyProps)

----------------------------------------------------------------------------
(* Claims about the daemon *)

\* The first error code daemon_exit was asked for, WP_EXIT_OK if none.
RECURSIVE FirstError(_)
FirstError(q) ==
  IF q = <<>> THEN WP_EXIT_OK
  ELSE IF Head(q).code # WP_EXIT_OK THEN Head(q).code
  ELSE FirstError(Tail(q))

SignalHandled == \E i \in 1..Len(requests) : requests[i].by \in Signals

\* C9: once d.exit_code holds an error no call of daemon_exit changes it,
\* and main returns the first error code requested, 0 if none was.
C9_ErrorKept ==
  exit_code # WP_EXIT_OK => exit_code' = exit_code

C9_ExitCodeSticky ==
  /\ [][C9_ErrorKept]_vars
  /\ []((d_pc = "done" /\ activation # "none") => d_ret = FirstError(requests))

\* An OK request followed an error request and main returned the error.
C9_Witness ==
  /\ d_pc = "done"
  /\ \E i, j \in 1..Len(requests) :
       /\ i < j
       /\ requests[i].code # WP_EXIT_OK
       /\ requests[j].code = WP_EXIT_OK
       /\ d_ret = requests[i].code

\* C10 (as amended): a signal handled while the main loop runs asks the
\* loop to quit, and main returns 0 unless a failed core activation is
\* handled before the loop returns; then main returns the code of that
\* failure.
C10_SignalQuits ==
  /\ (d_pc = "loop" /\ SignalHandled) => ~is_running
  /\ (d_pc = "done" /\ SignalHandled) =>
       d_ret = IF \E i \in 1..Len(requests) : requests[i].by = "activation"
               THEN FirstError(requests)
               ELSE WP_EXIT_OK

\* A signal was handled and main returned 0.
C10_Witness ==
  /\ d_pc = "done"
  /\ SignalHandled
  /\ d_ret = WP_EXIT_OK

\* C10 (as stated): after a signal was handled in the main loop the process
\* exits with code 0, in every interleaving.
C10_SignalExitsZero ==
  (d_pc = "done" /\ SignalHandled) => d_ret = WP_EXIT_OK

----------------------------------------------------------------------------
(* Claims about the event dispatcher *)

CurEvent == CHOOSE e \in cur : TRUE
StartedHooks == {log[i].hook : i \in {k \in 1..Len(log) : log[k].what = "start"}}
WaitingHooks == {order[i] : i \in 1..Len(order)}

\* C5: for hooks A and B that both match the event, with B in A's 'before'
\* set or A in B's 'after' set, A has terminated before B starts.
C5_OrderRespected ==
  \A i \in 1..Len(log) :
    log[i].what = "start" =>
      \A A \in DOMAIN matched :
        (\/ log[i].hook \in matched[A].before
         \/ A \in matched[log[i].hook].after)
        => \E j \in 1..(i - 1) : log[j].what = "done" /\ log[j].hook = A

\* The async hook C ran its two steps to the end before A (after = {C})
\* was started.
C5_Witness ==
  /\ Len(log) >= 3
  /\ log[1] = Started("C")
  /\ log[2] = Terminated("C", "none")
  /\ log[3] = Started("A")
  /\ "C" \in matched["A"].after
  /\ matched["C"].kind = "async"

\* C6: at no time are two hooks executing: at most one hook is in flight,
\* it belongs to the event being dispatched, and every start of a hook is
\* followed by the termination of that hook before any other start; an
\* async hook terminates when next-step answered "none" or a step failed.
C6_OneHookAtATime ==
  /\ Cardinality(active) <= 1
  /\ active # {} => cur # {}
  /\ \A i \in 1..Len(log) :
       /\ log[i].what = "start" =>
            IF i < Len(log)
            THEN log[i + 1].what = "done" /\ log[i + 1].hook = log[i].hook
            ELSE \E a \in active : a.name = log[i].hook
       /\ log[i].what = "done" =>
            /\ i > 1 /\ log[i - 1] = Started(log[i].hook)
            /\ matched[log[i].hook].kind = "async"
                 => log[i].why \in {"none", "failed"}
  /\ \A a \in active : log # <<>> /\ log[Len(log)] = Started(a.name)

\* The async hook C waits for the completion of its second step while an
\* event pushed meanwhile waits in the queue and a hook waits to be started.
C6_Witness ==
  /\ active = {[name |-> "C", step |-> 2]}
  /\ queue # <<>>
  /\ order # <<>>

\* C7: the event dispatched next is the waiting event of highest priority,
\* the first pushed among those of equal priority; the event executing is
\* replaced only when its dispatch has ended, and events wait only while
\* an event is executing.
C7_DispatchesFirst ==
  (cur' # cur /\ cur' # {}) =>
    \A i \in 1..Len(queue') :
      LET e == CHOOSE x \in cur' : TRUE
          w == queue'[i]
      IN ~(w.prio > e.prio \/ (w.prio = e.prio /\ w.seq < e.seq))

C7_NoPreemption ==
  (cur # {} /\ cur' # cur) => (active = {} /\ (order = <<>> \/ cancelled))

C7_QueueOrder ==
  /\ [][C7_DispatchesFirst /\ C7_NoPreemption]_vars
  /\ [](queue # <<>> => cur # {})

\* The third event pushed, of priority 2, was dispatched before the second,
\* of priority 1, which still waits.
C7_Witness ==
  /\ cur # {}
  /\ CurEvent.seq = 3
  /\ CurEvent.prio = 2
  /\ \E i \in 1..Len(queue) : queue[i].seq = 2 /\ queue[i].prio = 1

\* C8: dispatching E selects exactly the registered hooks that match E and
\* runs only selected hooks, each at most once: no hook that does not match
\* runs and no hook runs twice.  Every selected hook has run when the
\* dispatch ends, unless the event was cancelled or the hook lies on
\* a cycle of the ordering constraints.
C8_Selected ==
  (cur' # cur /\ cur' # {}) =>
    LET e == CHOOSE x \in cur' : TRUE
    IN /\ DOMAIN matched' = {n \in DOMAIN hooks : e.type \in hooks[n].interest}
       /\ \A n \in DOMAIN matched' : matched'[n] = hooks[n]

C8_Ended ==
  (cur # {} /\ cur' # cur) =>
    /\ active = {}
    /\ ~cancelled => StartedHooks = DOMAIN matched \ skipped

C8_AtMostOnce ==
  /\ \A i, j \in 1..Len(log) :
       (log[i].what = "start" /\ log[j].what = "start" /\ i # j)
         => log[i].hook # log[j].hook
  /\ StartedHooks \subseteq DOMAIN matched
  /\ \A h \in StartedHooks : cur # {} /\ CurEvent.type \in matched[h].interest
  /\ StartedHooks \cap WaitingHooks = {}
  /\ StartedHooks \cap skipped = {}
  /\ StartedHooks \cup WaitingHooks \cup skipped = DOMAIN matched

C8_RunsMatchingOnce ==
  /\ [][C8_Selected /\ C8_Ended]_vars
  /\ []C8_AtMostOnce

\* The dispatch of an E1 event has run its two matching hooks, B then A,
\* while a registered hook C that matches E2 only did not run.
C8_Witness ==
  /\ cur # {}
  /\ CurEvent.type = "E1"
  /\ DOMAIN hooks = {"A", "B", "C"}
  /\ "E1" \notin hooks["C"].interest
  /\ order = <<>>
  /\ active = {}
  /\ ~cancelled
  /\ StartedHooks = {"A", "B"}

----------------------------------------------------------------------------
(* Claims about the reserve-device plugin *)

HeldReservations == {reserve_devices[n] : n \in DOMAIN reserve_devices}

\* C11: when the plugin is notified of a bus state other than connected,
\* every reservation it holds is sent "release" and removed and the object
\* manager is dropped; in every state where the bus is not connected the
\* plugin holds no reservation (and no manager).
C11_ClearedOnNotify ==
  (rd_ret'.op = "notify" /\ dbus_state' # "connected" /\ handlers > 0) =>
    /\ reserve_devices' = NoReservations
    /\ ~manager'
    /\ \A rd \in HeldReservations : released'[rd] = released[rd] + 1

C11_NoneHeldOffBus ==
  (rd_pc = "alive" /\ dbus_state # "connected") =>
    (reserve_devices = NoReservations /\ ~manager)

C11_BusLossReleasesAll ==
  /\ [][C11_ClearedOnNotify]_vars
  /\ []C11_NoneHeldOffBus

\* The bus went from connected to connecting while the plugin held two
\* reservations, which were both released.
C11_Witness ==
  /\ rd_ret.op = "notify"
  /\ dbus_state = "connecting"
  /\ enabled
  /\ nCreated = 2
  /\ released[1] = 1 /\ released[2] = 1
  /\ reserve_devices = NoReservations
  /\ ~manager

\* C12: while the bus is not in the connected state create-reservation and
\* get-reservation return no object, destroy-reservation removes nothing,
\* and none of the three changes the reservations held.
C12_NoOpStep ==
  (rd_ret'.op \in {"create", "get", "destroy"} /\ dbus_state # "connected") =>
    /\ rd_ret'.val = {}
    /\ reserve_devices' = reserve_devices
    /\ released' = released
    /\ nCreated' = nCreated

C12_NoOpsOffBus == [][C12_NoOpStep]_vars

\* create-reservation returned nothing on an enabled plugin whose bus was
\* connecting, after an earlier reservation had been created and lost.
C12_Witness ==
  /\ rd_ret.op = "create"
  /\ rd_ret.val = {}
  /\ enabled
  /\ dbus_state = "connecting"
  /\ nCreated = 1

----------------------------------------------------------------------------
(* Claims about the encoding of keys *)

EscapeLetters == {"\\", "s", "e", "o", "c"}
RawCharacters == {" ", "=", "[", "]"}

\* C13 (as stated): a backslash followed by a character other than
\* backslash, 's', 'e', 'o' and 'c' is decoded literally: the backslash and
\* the character after it both appear unchanged.  Checked on stored keys
\* whose only backslash is followed by such a character, which decode to
\* themselves if the claim holds.
C13_UnrecognisedEscapeLiteral ==
  (/\ s_op = "compress"
   /\ \E k \in 1..(Len(s_in) - 1) :
        /\ s_in[k] = "\\"
        /\ s_in[k + 1] \notin EscapeLetters
        /\ \A i \in 1..Len(s_in) : s_in[i] = "\\" => i = k)
  => s_out = s_in

\* The code the table of the specification gives a raw character.
C14_Letter(c) ==
  CASE c = "\\" -> "\\"
    [] c = " " -> "s"
    [] c = "=" -> "e"
    [] c = "[" -> "o"
    [] c = "]" -> "c"

\* out is key written character by character: backslash and a letter for
\* each of the five characters, the character itself for any other.
RECURSIVE C14_Encodes(_, _)
C14_Encodes(key, out) ==
  IF key = <<>> THEN out = <<>>
  ELSE IF Head(key) \in RawCharacters \cup {"\\"}
  THEN /\ Len(out) >= 2
       /\ out[1] = "\\"
       /\ out[2] = C14_Letter(Head(key))
       /\ C14_Encodes(Tail(key), SubSeq(out, 3, Len(out)))
  ELSE /\ Len(out) >= 1
       /\ out[1] = Head(key)
       /\ C14_Encodes(Tail(key), Tail(out))

\* Every backslash of s begins a two-character sequence of the scheme.
RECURSIVE C14_WellFormed(_)
C14_WellFormed(s) ==
  IF s = <<>> THEN TRUE
  ELSE IF Head(s) = "\\"
  THEN Len(s) >= 2 /\ s[2] \in EscapeLetters /\ C14_WellFormed(SubSeq(s, 3, Len(s)))
  ELSE C14_WellFormed(Tail(s))

\* C14: escape_string writes backslash-backslash, backslash-s, backslash-e,
\* backslash-o, backslash-c for backslash, space, '=', '[', ']' and copies
\* every other character; the encoded key holds no raw space, '=', '[' or
\* ']' and each backslash in it begins one of the five sequences.  (For the
\* empty key escape_string returns NULL: there is no encoded key.)
C14_EscapeScheme ==
  (s_op = "escape" /\ s_in # <<>>) =>
    /\ s_out # NULL_STR
    /\ C14_Encodes(s_in, s_out)
    /\ \A i \in 1..Len(s_out) : s_out[i] \notin RawCharacters
    /\ C14_WellFormed(s_out)

\* A key holding a backslash, a closing bracket and a plain letter was
\* encoded.
C14_Witness ==
  /\ s_op = "escape"
  /\ s_in = <<"\\", "]", "c">>
  /\ s_out = <<"\\", "\\", "\\", "c", "c">>

----------------------------------------------------------------------------
(* Claims about what wp_state_save stores and reports *)

\* C15 (as stated): after a successful wp_state_save(P) the stored state
\* consists of all the entries of P and only those, whatever was saved
\* before: what wp_state_load reads from the file is P.
C15_SaveReplacesAll ==
  lastSave # NULL => wp_state_load(file) = lastSave

\* The part of C15 about earlier saves: every entry readable after a
\* successful wp_state_save(P) is an entry of P.
C15_NothingStale ==
  lastSave # NULL =>
    LET stored == Deref(wp_state_load(file))
        P == Deref(lastSave)
    IN \A k \in DOMAIN stored : k \in DOMAIN P /\ stored[k] = P[k]

\* C16: wp_state_save returns FALSE, with an error set, exactly when the
\* write of the file fails, and TRUE otherwise; wp_state_load reports no
\* failure when reading fails and returns an empty Properties.
C16_FailureReporting ==
  /\ ret.op \in {"save", "timeout_callback"} =>
       /\ ret.ok <=> ~io.failed
       /\ ~ret.ok <=> io.error
  /\ (ret.op = "load" /\ io.failed) =>
       /\ ret.ok
       /\ ~io.error
       /\ ret.val = Ref(EmptyProps)

\* wp_state_save failed to write and returned FALSE; the file of an earlier
\* save is still there.
C16_Witness ==
  /\ ret.op = "save"
  /\ ~ret.ok
  /\ io = IO(TRUE, TRUE)
  /\ file.kind = "ok"
  /\ DOMAIN file.group # {}

----------------------------------------------------------------------------
(* Claims about ordering, cycles and cancellation in the dispatcher *)

\* The names of the hooks started for the current event, in order of start.
RECURSIVE StartsOf(_)
StartsOf(l) ==
  IF l = <<>> THEN <<>>
  ELSE IF Head(l).what = "start" THEN <<Head(l).hook>> \o StartsOf(Tail(l))
  ELSE StartsOf(Tail(l))

\* The execution order of the current event: started hooks, then waiting.
ExecutionOrder == StartsOf(log) \o order

\* a must run before b by the constraints declared in M.
C17_Edge(M, a, b) == b \in M[a].before \/ a \in M[b].after

\* The hooks of M from which a chain of constraints leads back to them.
C17_Cyclic(M) ==
  {n \in DOMAIN M :
     \E k \in 1..Cardinality(DOMAIN M) : \E p \in [1..k -> DOMAIN M] :
       /\ C17_Edge(M, n, p[1])
       /\ \A i \in 1..(k - 1) : C17_Edge(M, p[i], p[i + 1])
       /\ p[k] = n}

\* C17: when the constraints of the hooks matching an event hold a cycle,
\* the dispatcher reports one CycleError, skips the hooks on a cycle and
\* runs the others in an order that respects the constraints; every
\* dispatch, those after a CycleError included, is handled this way.
C17_DispatchWithCycle ==
  (cur' # cur /\ cur' # {}) =>
    LET M == matched'
        cyc == C17_Cyclic(matched')
    IN /\ skipped' = cyc
       /\ cycleErrors' = IF cyc # {} THEN cycleErrors + 1 ELSE cycleErrors
       /\ {order'[i] : i \in 1..Len(order')} = DOMAIN M \ cyc
       /\ Len(order') = Cardinality(DOMAIN M \ cyc)
       /\ \A i, j \in 1..Len(order') :
            i < j => ~C17_Edge(M, order'[j], order'[i])

C17_RemainderRuns ==
  (cur # {} /\ cur' # cur /\ ~cancelled) =>
    /\ order = <<>>
    /\ StartedHooks = DOMAIN matched \ skipped

C17_CycleHandled ==
  /\ [][C17_DispatchWithCycle /\ C17_RemainderRuns]_vars
  /\ [](StartedHooks \cap skipped = {})

\* An event that matched A and B, which form a cycle, and C was dispatched
\* with one CycleError; a later event is being dispatched and has run its
\* hook.
C17_Witness ==
  /\ cycleErrors = 1
  /\ DOMAIN hooks = {"A", "B", "C"}
  /\ "A" \in hooks["B"].before /\ "B" \in hooks["A"].before
  /\ cur # {}
  /\ CurEvent.seq = 3
  /\ CurEvent.type = "E2"
  /\ skipped = {}
  /\ order = <<>>
  /\ StartedHooks = {"C"}

\* The hooks of the Ordering scenario: A (after = {C}), B (before = {A}),
\* C (no constraints), all selected for the current event.
C18_Scenario ==
  /\ cur # {}
  /\ DOMAIN matched = {"A", "B", "C"}
  /\ matched["A"].after = {"C"} /\ matched["A"].before = {}
  /\ matched["B"].before = {"A"} /\ matched["B"].after = {}
  /\ matched["C"].before = {} /\ matched["C"].after = {}

RegistrationOrders(S) ==
  {p \in [1..Cardinality(S) -> S] :
     \A i, j \in 1..Cardinality(S) : p[i] = p[j] => i = j}

Queued(seq) == \E i \in 1..Len(queue) : queue[i].seq = seq

\* C20: once the event in flight is cancelled no further hook of it is
\* started; the cancellation leaves the queue as it is; when the dispatch
\* of the cancelled event ends the head of the queue is dispatched with all
\* the registered hooks that match it; and every event waiting when an event
\* is cancelled is dispatched later: events leave the queue only by being
\* dispatched, and the queue that waited at the cancellation empties.
C20_NoStartAfterCancel ==
  (cancelled /\ cur' = cur) =>
    (StartsOf(log') = StartsOf(log) /\ order' = order /\ cancelled')

C20_QueueUnaffected ==
  (~cancelled /\ cancelled' /\ cur' = cur) => queue' = queue

C20_NextDispatchedFully ==
  (cancelled /\ cur' # cur /\ queue # <<>>) =>
    /\ cur' = {Head(queue)}
    /\ queue' = Tail(queue)
    /\ DOMAIN matched' =
         {n \in DOMAIN hooks : Head(queue).type \in hooks[n].interest}
    /\ {order'[i] : i \in 1..Len(order')} \cup skipped' = DOMAIN matched'
    /\ log' = <<>>
    /\ ~cancelled'

C20_LeavesByDispatch ==
  \A seq \in 1..MaxEvents :
    (Queued(seq) /\ ~Queued(seq)') => (cur' # {} /\ (CHOOSE e \in cur' : TRUE).seq = seq)

----------------------------------------------------------------------------
(* Claims about the registration of hooks *)

\* How many entries of the list of registered hooks carry the name n.
EntriesNamed(n) == Cardinality({i \in DOMAIN regOrder : regOrder[i] = n})

\* At most one hook is held per name.
C21_OnePerName ==
  \A n \in HookNames :
    /\ EntriesNamed(n) <= 1
    /\ n \in DOMAIN hooks <=> EntriesNamed(n) = 1

\* A registration leaves exactly one hook of its name: the one registered.
C21_LastWins ==
  \A def \in HookDefs :
    Register(def) => /\ def.name \in DOMAIN hooks'
                     /\ hooks'[def.name] = def
                     /\ Cardinality({i \in DOMAIN regOrder' :
                                       regOrder'[i] = def.name}) = 1

\* C21: hook registration is idempotent on name: after any sequence of
\* registrations the dispatcher holds at most one hook per name, and a
\* registration under a name already registered leaves exactly one hook of
\* that name, the one registered last.
C21_RegistrationIdempotent == [](C21_OnePerName) /\ [][C21_LastWins]_vars

\* Name A was registered twice with different hooks, B in between or before.
C21_Witness ==
  /\ nRegs = 3
  /\ regOrder = <<"B", "A">>
  /\ hooks["A"] = Hook("A", {"B"}, {}, {"E1"}, "sync", 0)

----------------------------------------------------------------------------
(* Claims about the daemon's startup and the activation of the core *)

\* The exit code of section 6 for an activation error.
C22_CodeFor(res) ==
  IF res = "SERVICE_UNAVAILABLE" THEN 69
  ELSE IF res = "INVALID_ARGUMENT" THEN 78
  ELSE 70

\* C22: when core activation fails, the exit code the daemon requests is 69
\* for a service-unavailable error, 78 for an invalid-argument error and 70
\* for every other error; a successful activation requests no exit and
\* leaves the exit code unchanged.
C22_ActivationExitCodes ==
  [][\A res \in ActivationResults :
       on_core_activated(res) =>
         IF res = "none"
         THEN /\ requests' = requests
              /\ exit_code' = exit_code
              /\ is_running' = is_running
         ELSE /\ requests' = Append(requests,
                                    Request("activation", C22_CodeFor(res)))
              /\ ~is_running'
              /\ exit_code = WP_EXIT_OK => exit_code' = C22_CodeFor(res)]_vars

\* An activation failed with an invalid argument, and main returned 78.
C22_Witness ==
  /\ d_pc = "done"
  /\ requests = <<Request("activation", 78)>>
  /\ d_ret = 78

\* The main loop was never entered and nothing was requested of it.
C23_LoopNeverStarted ==
  /\ d_pc \notin {"run", "loop"}
  /\ ~is_running
  /\ activation = "none"
  /\ requests = <<>>

\* C23: the startup checks are decided in a fixed order and the first that
\* applies ends the process without the main loop ever starting: a parse
\* error of the command line exits 64; otherwise a version request prints
\* the version and exits 0 even when the configuration cannot be loaded;
\* otherwise a failure to load the configuration exits 78.
C23_StartupOrder ==
  /\ (opt_error \/ show_version \/ conf_error) => C23_LoopNeverStarted
  /\ d_pc = "done" =>
       /\ opt_error => d_ret = 64 /\ d_out = <<"error->message">>
       /\ (~opt_error /\ show_version) =>
            d_ret = 0 /\ d_out = <<"WIREPLUMBER_VERSION">>
       /\ (~opt_error /\ ~show_version /\ conf_error) =>
            d_ret = 78 /\ d_out = <<"Failed to load configuration">>

\* A version request with a configuration that cannot be loaded.
C23_Witness ==
  /\ d_pc = "done"
  /\ ~opt_error
  /\ show_version
  /\ conf_error
  /\ d_ret = 0

----------------------------------------------------------------------------
(* Claims about the debounce timer of a WpState *)

\* C24: in every state between operations a State has a pending debounce
\* timer if and only if it holds pending Properties, and at most one timer
\* is pending per State, after any sequence of save-after-timeout calls and
\* timer expiries.
C24_TimerIffPendingProps ==
  /\ sources # {} <=> timeout_props # NULL
  /\ timeout_source # NoSource <=> timeout_props # NULL
  /\ Cardinality(sources) <= 1
  /\ sources \subseteq {timeout_source}

\* A second call replaced the timer of the first; one timer is pending.
C24_Witness ==
  /\ calls = 2
  /\ Cardinality(sources) = 1
  /\ timeout_props # NULL

\* A step of wp_state_save or wp_state_clear leaves the timer and the
\* pending Properties as they were.
C25_FrameOfSaveAndClear ==
  ret'.op \in {"save", "clear"} =>
    UNCHANGED <<timeout_source, timeout_props, sources>>

\* The timer that expires after such calls stores the pending Properties,
\* when its write succeeds.
C25_TimerStoresPending ==
  (twrites' = twrites + 1 /\ between # {} /\ ret'.ok) =>
    /\ lastSupplied # NULL
    /\ timeout_props = lastSupplied
    /\ file' = GoodFile(KeyFileOf(Deref(lastSupplied)))

\* After such calls the timer is still attached to the main loop.
C25_TimerStillPending ==
  (between # {} /\ calls > 0) =>
    /\ timeout_source \in sources
    /\ timeout_props = lastSupplied
    /\ lastSupplied # NULL

\* C25: wp_state_save and wp_state_clear leave a pending debounced write
\* untouched (timer and pending Properties unchanged): when
\* save-after-timeout(P1) is followed, before the timer fires, by save(P2)
\* or clear(), the timer still fires and the stored state afterwards is P1.
C25_PendingWriteUntouched ==
  /\ [][C25_FrameOfSaveAndClear /\ C25_TimerStoresPending]_vars
  /\ [](C25_TimerStillPending)

\* wp_state_save and wp_state_clear were both called while the timer was
\* pending; the timer expired and stored the pending Properties.
C25_Witness ==
  /\ ret.op = "timeout_callback"
  /\ ret.ok
  /\ between = {"save", "clear"}
  /\ file.kind = "ok"
  /\ DOMAIN file.group # {}

\* C26: when the debounce timer fires, the pending timer and the pending
\* Properties are both cleared whether or not the write succeeded: a failed
\* debounced write is only logged, is never retried, and the timer callback
\* does not fire a second time for the same call.
C26_ExpiryClearsPending ==
  [][twrites' = twrites + 1 =>
       /\ timeout_source' = NoSource
       /\ timeout_props' = NULL
       /\ sources' = {}
       /\ twrites = 0
       /\ ~ret'.ok => file' = file /\ io'.failed]_vars

\* The timer expired, its write failed, and nothing is pending.
C26_Witness ==
  /\ ret.op = "timeout_callback"
  /\ ~ret.ok
  /\ io.failed
  /\ sources = {}
  /\ timeout_props = NULL
  /\ twrites = 1

\* C27: wp_state_load never reflects a pending debounced write and changes
\* nothing: between save-after-timeout(P) and the expiry of its timer, load
\* returns what was stored before that call, and load leaves the stored
\* file, the pending timer and the pending Properties unchanged.
C27_LoadIgnoresPending ==
  [][/\ calls' = calls + 1 => file' = file
     /\ ret'.op = "load" =>
          /\ UNCHANGED <<file, timeout_source, timeout_props, sources>>
          /\ ret'.val = wp_state_load(file)]_vars

\* A load while a write is pending returned the stored Properties, which
\* are not the pending ones.
C27_Witness ==
  /\ ret.op = "load"
  /\ timeout_props # NULL
  /\ file.kind = "ok"
  /\ DOMAIN file.group # {}
  /\ ret.val # NULL
  /\ ret.val # timeout_props
  /\ ret.val = lastSave

----------------------------------------------------------------------------
(* Claims about the reservations the plugin holds *)

\* The reservations constructed under a name that the plugin has not
\* released.
Live(name) ==
  {rd \in 1..nCreated : createdAs[rd] = name /\ released[rd] = 0}

\* The reservation constructed last under a name.
Latest(name) ==
  CHOOSE rd \in 1..nCreated :
    /\ createdAs[rd] = name
    /\ \A other \in 1..nCreated : createdAs[other] = name => other <= rd

C28_OnePerName ==
  \A name \in RdNames :
    /\ Cardinality(Live(name)) <= 1
    /\ Live(name) # {} => Live(name) = {Latest(name)}
    /\ name \in DOMAIN reserve_devices <=> Live(name) # {}
    /\ name \in DOMAIN reserve_devices => reserve_devices[name] \in Live(name)

C28_CreateReplaces ==
  (rd_ret'.op = "create" /\ nCreated' = nCreated + 1) =>
    /\ dbus_state = "connected"
    /\ rd_ret'.val = {nCreated'}
    /\ reserve_devices'[rd_ret'.name] = nCreated'
    /\ rd_ret'.name \in DOMAIN reserve_devices =>
         released'[reserve_devices[rd_ret'.name]] = 1
    /\ \A n \in DOMAIN reserve_devices \ {rd_ret'.name} :
         /\ n \in DOMAIN reserve_devices'
         /\ reserve_devices'[n] = reserve_devices[n]
         /\ released'[reserve_devices[n]] = 0

C28_GetReturnsLatest ==
  (rd_ret'.op = "get" /\ dbus_state = "connected") =>
    rd_ret'.val = Live(rd_ret'.name)

\* C28: the plugin holds at most one reservation per name: while the bus is
\* connected, create-reservation with a name already present replaces the
\* existing reservation, which is released, and get-reservation for that
\* name returns the most recently created reservation that has not been
\* destroyed since, or nothing if there is none.
C28_OneReservationPerName ==
  /\ [](C28_OnePerName)
  /\ [][C28_CreateReplaces /\ C28_GetReturnsLatest]_vars

\* Two reservations were created under hw0; get-reservation returned the
\* second, and the first was released.
C28_Witness ==
  /\ rd_ret = RdReturned("get", "hw0", {2})
  /\ createdAs = <<"hw0", "hw0">>
  /\ released[1] = 1
  /\ released[2] = 0

\* C29: every reservation that leaves the plugin's table, whether by
\* destroy-reservation, by replacement on a create with the same name, by
\* the bus leaving the connected state, by disable, or at finalization, is
\* sent "release" exactly once by the plugin, and no reservation still in
\* the table is sent "release" by the plugin.
C29_ReleasedOnceOnLeaving ==
  /\ \A rd \in 1..nCreated :
       released[rd] = IF rd \in HeldReservations THEN 0 ELSE 1
  /\ \A rd \in RdIds \ (1..nCreated) : released[rd] = 0
  /\ HeldReservations \subseteq 1..nCreated

\* Of three reservations one was replaced or destroyed and two were in the
\* table when the plugin was finalized.
C29_Witness ==
  /\ rd_pc = "finalized"
  /\ createdAs = <<"hw0", "hw0", "hw1">>
  /\ \A rd \in 1..3 : released[rd] = 1
  /\ reserve_devices = NoReservations

\* C30: after the plugin is disabled it holds no reservation and no D-Bus
\* object manager, and this stays true under any later bus state
\* notification and any create, get or destroy call, until enable is called
\* again.
C30_DisabledHoldsNothing ==
  (rd_pc = "alive" /\ handlers > 0 /\ ~enabled) =>
    (reserve_devices = NoReservations /\ ~manager)

\* The part of C30 about the reservations: a disabled plugin holds none.
C30_DisabledHoldsNoReservation ==
  (rd_pc = "alive" /\ ~enabled) => reserve_devices = NoReservations

----------------------------------------------------------------------------
(* Claims about enabling the reserve-device plugin *)

\* An enable without a dbus-connection plugin returns an error and leaves
\* the plugin as it was constructed.
C31_FailedEnable ==
  (rd_ret'.op = "enable" /\ ~dbus_loaded) =>
    /\ rd_ret'.name = "error"
    /\ ~enabled'
    /\ ~dbus'
    /\ handlers' = 0
    /\ ~manager'
    /\ reserve_devices' = NoReservations

\* An enable that finds the plugin connects the handler and has applied
\* the state of the bus when the plugin is reported enabled.
C31_EnableAppliesState ==
  (rd_ret'.op = "enable" /\ dbus_loaded /\ ~enabled) =>
    /\ rd_ret'.name = ""
    /\ enabled'
    /\ dbus'
    /\ handlers' = handlers + 1
    /\ dbus_state' = dbus_state
    /\ manager' <=> dbus_state = "connected"
    /\ dbus_state # "connected" => reserve_devices' = NoReservations

\* C31: enabling the plugin when no "dbus-connection" plugin is loaded fails
\* the enable transition with an error and leaves the plugin not enabled,
\* with no signal handler connected, no manager and no reservations; when
\* the plugin is found, enable applies the current bus state immediately,
\* before reporting the plugin enabled.
C31_EnableNeedsDBus == [][C31_FailedEnable /\ C31_EnableAppliesState]_vars

\* Enable failed for want of the dbus-connection plugin.
C31_Witness ==
  /\ rd_ret = RdReturned("enable", "error", {})
  /\ ~dbus_loaded
  /\ ~enabled
  /\ handlers = 0

----------------------------------------------------------------------------
(* Claims about the daemon leaving its main loop *)

\* A handler that called daemon_exit in this step: a request was recorded.
C32_Handled == requests' # requests

\* Each of the handlers asks the loop to quit.
C32_HandlerQuitsLoop ==
  C32_Handled =>
    /\ d_pc = "loop"
    /\ ~is_running'
    /\ requests'[Len(requests')].by
         \in Signals \cup {"disconnected", "activation"}

\* A disconnect asks for exit code 0.
C32_DisconnectRequestsZero ==
  \A i \in DOMAIN requests :
    requests[i].by = "disconnected" => requests[i].code = 0

\* The daemon has left the loop, disconnected the core and returned
\* d.exit_code.
C32_Left ==
  /\ d_pc = "done"
  /\ core = "disconnected"
  /\ d_ret = exit_code

\* C32: once the daemon runs its main loop, handling any one of SIGINT,
\* SIGTERM, SIGHUP, a media-server disconnect or a failed core activation
\* asks the loop to quit, so that (the loop being scheduled fairly) the
\* daemon eventually leaves the loop, disconnects the core and returns its
\* exit code; a disconnect requests exit code 0.
C32_HandlersEndTheDaemon ==
  /\ [][C32_HandlerQuitsLoop]_vars
  /\ [](C32_DisconnectRequestsZero)
  /\ (requests # <<>>) ~> C32_Left

\* After a disconnect alone the daemon left the loop and returned 0.
C32_Witness ==
  /\ C32_Left
  /\ requests = <<Request("disconnected", 0)>>
  /\ d_ret = 0

====
